---- MODULE Spec2Model ----
(***************************************************************************)
(* mailtool-py: MailAccount (src/mailtool/mailaccount.py) working against  *)
(* an IMAP server through MailSession (src/mailtool/mailsession.py).       *)
(*                                                                         *)
(* The server is a set of folders holding messages.  Every MailAccount     *)
(* method is an operator that takes a context c (server, folder cache,     *)
(* the log of server calls issued so far, the pending exception) and       *)
(* returns the context after the call, which holds the returned value.     *)
(* Every action of the state machine is one public call of MailAccount.    *)
(***************************************************************************)
EXTENDS Integers, Sequences, FiniteSets, TLC

\* ------------------------------------------------------------------ bounds
\* messages in INBOX in the initial state
MaxMsg == 2
\* rules in the rule file
MaxRules == 2
\* the latest call of a run that the server may refuse
MaxFail == 30
\* the longest list FETCH_KEYS a process is followed to
MaxKeys == 6

\* ------------------------------------------------------- python values
\* A python string is modelled as the sequence of its whitespace-separated
\* words ("Junk Mail" is <<"Junk", "Mail">>, "" is << >>); a value is a string,
\* a bool or a list of strings and bools.
Str(w) == [t |-> "str", w |-> w, b |-> FALSE, n |-> 0, xs |-> << >>]
Word(s) == Str(<<s>>)
Bool(b) == [t |-> "bool", w |-> << >>, b |-> b, n |-> 0, xs |-> << >>]
Date(n) == [t |-> "date", w |-> << >>, b |-> FALSE, n |-> n, xs |-> << >>]
List(xs) == [t |-> "list", w |-> << >>, b |-> FALSE, n |-> 0, xs |-> xs]
None == [t |-> "none", w |-> << >>, b |-> FALSE, n |-> 0, xs |-> << >>]

\* python truthiness ("if not v")
Truthy(v) ==
  CASE v.t = "bool" -> v.b
    [] v.t = "str" -> v.w # << >>
    [] v.t = "list" -> v.xs # << >>
    [] v.t = "date" -> TRUE
    [] OTHER -> FALSE

\* listify(obj): the list of python values obj denotes
listify(obj) ==
  IF obj.t = "str"
  THEN IF Len(obj.w) > 1
       THEN [i \in 1..Len(obj.w) |-> Word(obj.w[i])]
       ELSE <<obj>>
  ELSE IF obj.t # "list"
       THEN <<obj>>
       ELSE obj.xs

\* a in b for two python strings given as sequences of pieces: a occurs in b
\* as a contiguous run
Contains(a, b) ==
  \E i \in 0..(Len(b) - Len(a)) : \A j \in 1..Len(a) : b[i + j] = a[j]

\* ----------------------------------------------------------- IMAP server
\* Folder names are python strings (sequences of words).
INBOX == <<"INBOX">>
Junk == <<"Junk">>
Mail == <<"Mail">>
JunkMail == <<"Junk", "Mail">>
Star == <<"*">>
FolderNames == {INBOX, Junk, Mail, JunkMail}

\* A search criterion as the client sends it: a keyword, its argument (None
\* for a bare keyword) and whether it is wrapped in NOT.
Clause(kw, val, neg) == [kw |-> kw, val |-> val, neg |-> neg]

\* the server's test of one message against one search key
MatchesKey(m, cl) ==
  CASE cl.kw = "UNSEEN" -> ~m.seen
    [] cl.kw = "UNANSWERED" -> ~m.answered
    [] cl.kw = "FROM" -> cl.val.t = "str" /\ cl.val.w = <<m.from>>
    [] cl.kw = "TO" -> cl.val.t = "str" /\ cl.val.w = <<m.to>>
    [] cl.kw = "SUBJECT" -> cl.val.t = "str" /\ Contains(cl.val.w, m.subject)
    [] cl.kw = "SINCE" -> cl.val.t = "date" /\ m.date >= cl.val.n
    [] cl.kw = "BEFORE" -> cl.val.t = "date" /\ m.date < cl.val.n
    [] OTHER -> FALSE

Matches(m, cl) == IF cl.neg THEN ~MatchesKey(m, cl) ELSE MatchesKey(m, cl)

\* SEARCH: the UIDs of the messages of a folder that match every criterion
\* (no criterion: ALL)
SearchFolder(srv, folder, criteria) ==
  {m.uid : m \in {x \in srv.mbox[folder] :
                    \A i \in 1..Len(criteria) : Matches(x, criteria[i])}}

\* ----------------------------------------------------- calls in progress
\* The context a call runs in: the server, the account's _folders cache
\* (None or the list of names), the server calls issued so far, the pending
\* exception, per open session the folder it has selected, what was printed
\* and the value the last completed step returned.  open counts the
\* connections to the server that are open; fail is the position in the log
\* of the call that the server refuses (0: it refuses none).
NoErr == "none"
NoFolder == << >>
\* mailtool.FETCH_KEYS as the import of the package leaves it
FetchKeysAtImport == <<"UID", "ENVELOPE", "BODYSTRUCTURE", "FLAGS">>

Ctx(srv, cache) ==
  [srv |-> srv, cache |-> cache, log |-> << >>, err |-> NoErr, sess |-> << >>,
   out |-> << >>, ret |-> {}, open |-> 0, fail |-> 0, keys |-> FetchKeysAtImport]

\* the context c of a process whose list FETCH_KEYS is keys
Holding(c, keys) == [c EXCEPT !.keys = keys]

\* the context c with a server that refuses its n-th call
Failing(c, n) == [c EXCEPT !.fail = n]
\* the server refuses the call that c is about to issue
Refused(c) == Len(c.log) + 1 = c.fail

Entry(call, folder, crit, uids) ==
  [call |-> call, folder |-> folder, crit |-> crit, uids |-> uids, keys |-> << >>]
Logged(c, e) == [c EXCEPT !.log = Append(@, e)]
Raise(c, e) == [c EXCEPT !.err = e]
Failed(c) == c.err # NoErr
Ret(c, ret) == [c EXCEPT !.ret = ret]

\* MailSession.__enter__: connect and log in
Enter(c) ==
  IF Refused(c)
  THEN Raise([Logged(c, Entry("login", NoFolder, << >>, {})) EXCEPT !.open = @ + 1],
             "AccountLoginFailedException")
  ELSE [Logged(c, Entry("login", NoFolder, << >>, {}))
          EXCEPT !.sess = Append(@, NoFolder), !.open = @ + 1]

\* MailSession.__exit__ at the end of the with block that c0 entered: runs on
\* the normal and on the exceptional exit, and logs out
Exit(c0, c) ==
  IF Len(c.sess) > Len(c0.sess)
  THEN [Logged(c, Entry("logout", NoFolder, << >>, {}))
          EXCEPT !.sess = SubSeq(@, 1, Len(@) - 1), !.open = @ - 1]
  ELSE c

Selected(c) == c.sess[Len(c.sess)]

\* session.select_folder(folder)
select_folder(c, folder) ==
  IF Failed(c) THEN c
  ELSE IF ~Refused(c) /\ folder \in c.srv.folders
  THEN [Logged(c, Entry("select", folder, << >>, {})) EXCEPT !.sess[Len(c.sess)] = folder]
  ELSE Raise(Logged(c, Entry("select", folder, << >>, {})), "IMAPClientError")

\* session.search(criteria) in the selected folder
search(c, criteria) ==
  IF Failed(c) THEN Ret(c, {})
  ELSE IF Refused(c)
  THEN Ret(Raise(Logged(c, Entry("search", Selected(c), criteria, {})), "IMAPClientError"),
           {})
  ELSE Ret(Logged(c, Entry("search", Selected(c), criteria, {})),
           SearchFolder(c.srv, Selected(c), criteria))

\* the messages of the selected folder among uids
Picked(c, uids) == {m \in c.srv.mbox[Selected(c)] : m.uid \in uids}

\* the fetch of uids with the keys data, as the log records it
Fetched(c, uids, data) == [Entry("fetch", Selected(c), << >>, uids) EXCEPT !.keys = data]

\* session.fetch(uids, data): the messages of the selected folder among uids
fetch(c, uids, data) ==
  IF Failed(c) THEN Ret(c, {})
  ELSE IF Refused(c)
  THEN Ret(Raise(Logged(c, Fetched(c, uids, data)), "IMAPClientError"), {})
  ELSE Ret(Logged(c, Fetched(c, uids, data)), Picked(c, uids))

\* session.fetch(uids, FETCH_KEYS), and session.fetch(uids, keys) after
\* keys = FETCH_KEYS: the list handed over is the list of the package
FetchShared(c, uids) == fetch(c, uids, c.keys)

\* keys = FETCH_KEYS; keys.append("BODY.PEEK[]"): keys is the list of the
\* package under another name, and the append is made to it
AppendBody(c) == IF Failed(c) THEN c ELSE [c EXCEPT !.keys = Append(@, "BODY.PEEK[]")]

\* session.move(uids, folder)
move(c, uids, folder) ==
  IF Failed(c) THEN c
  ELSE IF Refused(c) \/ folder \notin c.srv.folders
  THEN Raise(Logged(c, Entry("move", folder, << >>, uids)), "IMAPClientError")
  ELSE [Logged(c, Entry("move", folder, << >>, uids))
          EXCEPT !.srv.mbox[folder] = @ \cup Picked(c, uids),
                 !.srv.mbox[Selected(c)] = @ \ Picked(c, uids)]

\* session.copy(uids, folder)
copy(c, uids, folder) ==
  IF Failed(c) THEN c
  ELSE IF Refused(c) \/ folder \notin c.srv.folders
  THEN Raise(Logged(c, Entry("copy", folder, << >>, uids)), "IMAPClientError")
  ELSE [Logged(c, Entry("copy", folder, << >>, uids))
          EXCEPT !.srv.mbox[folder] = @ \cup Picked(c, uids)]

\* session.delete_messages(uids): set the \Deleted flag
delete_flagged(c, uids) ==
  IF Failed(c) THEN c
  ELSE IF Refused(c)
  THEN Raise(Logged(c, Entry("delete_messages", Selected(c), << >>, uids)),
             "IMAPClientError")
  ELSE [Logged(c, Entry("delete_messages", Selected(c), << >>, uids))
          EXCEPT !.srv.mbox[Selected(c)] =
            {IF m.uid \in uids THEN [m EXCEPT !.deleted = TRUE] ELSE m : m \in @}]

\* session.expunge(uids): remove the messages among uids flagged \Deleted
expunge(c, uids) ==
  IF Failed(c) THEN c
  ELSE IF Refused(c)
  THEN Raise(Logged(c, Entry("expunge", Selected(c), << >>, uids)), "IMAPClientError")
  ELSE [Logged(c, Entry("expunge", Selected(c), << >>, uids))
          EXCEPT !.srv.mbox[Selected(c)] = {m \in @ : ~(m.uid \in uids /\ m.deleted)}]

\* session.create_folder(folder)
create(c, folder) ==
  IF Failed(c) THEN c
  ELSE IF Refused(c) \/ folder \in c.srv.folders
  THEN Raise(Logged(c, Entry("create_folder", folder, << >>, {})), "IMAPClientError")
  ELSE [Logged(c, Entry("create_folder", folder, << >>, {}))
          EXCEPT !.srv.folders = @ \cup {folder}]

\* session.rename_folder(folder, new_name): the folder and its messages get
\* the new name
rename(c, folder, new_name) ==
  IF Failed(c) THEN c
  ELSE IF Refused(c) \/ folder \notin c.srv.folders \/ new_name \in c.srv.folders
  THEN Raise(Logged(c, Entry("rename_folder", folder, <<new_name>>, {})),
             "IMAPClientError")
  ELSE [Logged(c, Entry("rename_folder", folder, <<new_name>>, {}))
          EXCEPT !.srv.folders = (@ \ {folder}) \cup {new_name},
                 !.srv.mbox = [f \in DOMAIN @ |->
                                 IF f = new_name THEN @[folder]
                                 ELSE IF f = folder THEN {} ELSE @[f]]]

\* session.delete_folder(folder)
delete_folder(c, folder) ==
  IF Failed(c) THEN c
  ELSE IF Refused(c) \/ folder \notin c.srv.folders
  THEN Raise(Logged(c, Entry("delete_folder", folder, << >>, {})), "IMAPClientError")
  ELSE [Logged(c, Entry("delete_folder", folder, << >>, {}))
          EXCEPT !.srv.folders = @ \ {folder}, !.srv.mbox[folder] = {}]

\* session.list_folders(): the names in the server's order
RECURSIVE SeqOfSet(_)
SeqOfSet(S) ==
  IF S = {} THEN << >>
  ELSE LET x == CHOOSE y \in S : TRUE IN <<x>> \o SeqOfSet(S \ {x})

list_folders(c) ==
  IF Failed(c) THEN Ret(c, << >>)
  ELSE IF Refused(c)
  THEN Ret(Raise(Logged(c, Entry("list", NoFolder, << >>, {})), "IMAPClientError"), << >>)
  ELSE Ret(Logged(c, Entry("list", NoFolder, << >>, {})), SeqOfSet(c.srv.folders))

\* ------------------------------------------------------------ MailAccount
NoCache == [valid |-> FALSE, names |-> << >>]
Range(f) == {f[i] : i \in DOMAIN f}

\* self._folders = [...] with the names the session listed
Remember(r) ==
  IF Failed(r) THEN r ELSE [r EXCEPT !.cache = [valid |-> TRUE, names |-> r.ret]]

\* return self._folders
Cached(c) == Ret(c, c.cache.names)

\* MailAccount.folders: the cached list, fetched in a session of its own
\* when the cache is empty
folders(c) ==
  IF Failed(c) THEN Ret(c, << >>)
  ELSE IF ~c.cache.valid
  THEN Cached(Exit(c, Remember(list_folders(Enter(c)))))
  ELSE Cached(c)

\* uids.update(...): the value r returns, added to uids
Update(uids, r) == Ret(r, uids \cup r.ret)

\* the loop of _get_message_ids over the folders fs from position i on; the
\* uids found so far are c.ret
RECURSIVE IdsLoop(_, _, _, _)
IdsLoop(c, fs, i, unread) ==
  IF i > Len(fs) \/ Failed(c) THEN c
  ELSE IdsLoop(Update(c.ret,
                      search(select_folder(c, fs[i]),
                             IF unread THEN <<Clause("UNSEEN", None, FALSE)>> ELSE << >>)),
               fs, i + 1, unread)

\* the names of listify(folder_name)
NamesOf(ls) == [i \in DOMAIN ls |-> ls[i].w]

\* the loop of _get_message_ids over the folders that fr returned
IdsOver(fr, unread) == IdsLoop(Ret(fr, {}), fr.ret, 1, unread)

\* MailAccount._get_message_ids(folder_name, unread)
get_message_ids(c, folder_name, unread) ==
  IF Failed(c) THEN Ret(c, {})
  ELSE Exit(c, IdsOver(IF folder_name = Word("*")
                       THEN folders(Enter(c))
                       ELSE Ret(Enter(c), NamesOf(listify(folder_name))),
                       unread))

get_all_message_ids(c, folder_name) == get_message_ids(c, folder_name, FALSE)

get_unread_ids(c, folder_name) == get_message_ids(c, folder_name, TRUE)

\* the loop of _get_messages_with_specs over zip(specs, vals)
RECURSIVE CriteriaLoop(_, _, _, _)
CriteriaLoop(specs, vals, i, criteria) ==
  IF i > Len(specs) \/ i > Len(vals) THEN criteria
  ELSE CriteriaLoop(specs, vals, i + 1,
         IF specs[i].w[1] = "NOT"
         THEN Append(criteria, Clause(specs[2].w[1], vals[i], TRUE))
         ELSE IF specs[i].w[1] = "UNANSWERED"
         THEN Append(criteria, Clause("UNANSWERED", None, FALSE))
         ELSE Append(criteria, Clause(specs[i].w[1], vals[i], FALSE)))

\* MailAccount._get_messages_with_specs(folder_name, spec_keys, spec_vals,
\* unread_only)
get_messages_with_specs(c, folder_name, spec_keys, spec_vals, unread_only) ==
  IF Failed(c) THEN Ret(c, {})
  ELSE Exit(c, search(select_folder(Enter(c), folder_name.w),
                      CriteriaLoop(listify(spec_keys), listify(spec_vals), 1,
                        IF ~Truthy(unread_only) THEN << >>
                        ELSE <<Clause("UNSEEN", None, FALSE)>>)))

get_messages_since_date(c, folder_name, since_date, unread_only) ==
  get_messages_with_specs(c, folder_name, Word("SINCE"), since_date, unread_only)

get_messages_before_date(c, folder_name, before_date, unread_only) ==
  get_messages_with_specs(c, folder_name, Word("BEFORE"), before_date, unread_only)

get_messages_between_dates(c, folder_name, since_date, before_date, unread_only) ==
  get_messages_with_specs(c, folder_name,
    List(<<Word("SINCE"), Word("BEFORE")>>), List(<<since_date, before_date>>),
    unread_only)

\* the loop of _get_messages_with_addresses over the addresses from i on; the
\* uids found so far are c.ret
RECURSIVE AddressLoop(_, _, _, _, _, _)
AddressLoop(c, folder_name, addresses, i, fromto, unread_only) ==
  IF i > Len(addresses) \/ Failed(c) THEN c
  ELSE AddressLoop(Update(c.ret,
                          get_messages_with_specs(c, folder_name, List(<<Word(fromto)>>),
                                                  addresses[i], unread_only)),
                   folder_name, addresses, i + 1, fromto, unread_only)

\* MailAccount._get_messages_with_addresses
get_messages_with_addresses(c, folder_name, addresses, fromto, unread_only) ==
  AddressLoop(Ret(c, {}), folder_name, listify(addresses), 1, fromto, unread_only)

get_messages_from(c, folder_name, senders, unread_only) ==
  get_messages_with_addresses(c, folder_name, senders, "FROM", unread_only)

get_messages_to(c, folder_name, recipients, unread_only) ==
  get_messages_with_addresses(c, folder_name, recipients, "TO", unread_only)

\* what get_message_objs returns: None or the list of messages
NoObjs == [none |-> TRUE, msgs |-> {}]
Objs(r) == Ret(r, [none |-> FALSE, msgs |-> r.ret])

\* if include_attach: keys.append("BODY.PEEK[]")
WithBody(c, include_attach) == IF include_attach THEN AppendBody(c) ELSE c

\* MailAccount.get_message_objs(uids, from_folder, include_attach): None for
\* no uids, else the fetched messages
get_message_objs(c, uids, from_folder, include_attach) ==
  IF Failed(c) THEN Ret(c, NoObjs)
  ELSE IF Cardinality(uids) < 1 THEN Ret(c, NoObjs)
  ELSE Exit(c, Objs(FetchShared(WithBody(select_folder(Enter(c), from_folder.w),
                                         include_attach),
                                uids)))

\* MailAccount.download_attachments(uids, from_folder); the files written are
\* left out
download_attachments(c, uids, from_folder) ==
  IF Failed(c) \/ Cardinality(uids) < 1 THEN Ret(c, {})
  ELSE Exit(c, Ret(FetchShared(AppendBody(select_folder(Enter(c), from_folder.w)), uids),
                   {}))

\* MailAccount.unique_senders(uids, from_folder); the lines printed are left
\* out
unique_senders(c, uids, from_folder) ==
  IF Failed(c) \/ Cardinality(uids) < 1 THEN Ret(c, {})
  ELSE Exit(c, Ret(FetchShared(select_folder(Enter(c), from_folder.w), uids), {}))

\* the uids messages_with_attachments keeps of the fetched messages
Kept(r, invert) ==
  Ret(r, {m.uid : m \in {x \in r.ret :
                           ~((~x.attach /\ ~invert) \/ (x.attach /\ invert))}})

\* MailAccount.messages_with_attachments(uids, from_folder, invert)
messages_with_attachments(c, uids, from_folder, invert) ==
  IF Failed(c) THEN Ret(c, {})
  ELSE IF Cardinality(uids) < 1 THEN Ret(c, uids)
  ELSE Exit(c, Kept(FetchShared(select_folder(Enter(c), from_folder.w), uids), invert))

\* ------------------------------------------------------ get_message_uids
\* Dictionary keys are python strings given as sequences of pieces, so that
\* the code's substring tests ("date" in k) are computed.
Key(s) == <<s>>
K_senders == Key("senders")
K_not_senders == <<"not_", "senders">>
K_recipients == Key("recipients")
K_since == Key("since")
K_before == Key("before")
K_date == Key("date")
K_subject == Key("subject")
K_not_subject == <<"not_", "subject">>
K_not_replied == Key("not_replied")
K_unread == Key("unread")
K_attachments == Key("attachments")
K_no_attachments == <<"no_", "attachments">>

\* a dict in insertion order: a sequence of [k, v] with distinct keys
Item(k, v) == [k |-> k, v |-> v]
HasKey(d, k) == \E i \in DOMAIN d : d[i].k = k
Lookup(d, k) == d[CHOOSE i \in DOMAIN d : d[i].k = k].v

\* ">>" in v: a substring of a string, an element of a list
InValue(s, v) ==
  IF v.t = "str" THEN \E i \in DOMAIN v.w : v.w[i] = s
  ELSE v.t = "list" /\ \E i \in DOMAIN v.xs : v.xs[i] = Word(s)

\* the length of the part of an address after its "@"
DomainLen(address) ==
  CASE address = "a@x.com" -> 5
    [] address = "spam@bad.com" -> 7
    [] address = "news@mail.bulk-sender-platform-delivery.example.com" -> 46
    [] OTHER -> 0

DomainThreshold == 32

\* toolbox.ymd_from_date_spec(v): the first day of the period v names and the
\* first day after it
ymd_from_date_spec(v) == <<Date(v.n), Date(v.n + 1)>>

\* What one pass of the for loop of get_message_uids hands to the merge: the
\* uids its key resolved to, or skip for a key no branch takes (continue).
Resolved(r) == Ret(r, [skip |-> FALSE, uids |-> r.ret])
Skipped(c) == Ret(c, [skip |-> TRUE, uids |-> {}])

\* objs = self.get_message_objs(all_uids, folder_name)
ObjsOf(a, folder_name) == get_message_objs(a, a.ret, folder_name, FALSE)

\* the for loop over objs of the ">>" branch: the senders with a long domain
LongDomains(o) ==
  IF Failed(o) THEN Ret(o, {})
  ELSE IF o.ret.none THEN Ret(Raise(o, "TypeError"), {})
  ELSE Ret(o, {m.uid : m \in {x \in o.ret.msgs : DomainLen(x.from) > DomainThreshold}})

\* get_messages_between_dates(folder_name, *ymd_from_date_spec(v))
BetweenDates(c, folder_name, d, unread_only) ==
  get_messages_between_dates(c, folder_name, d[1], d[2], unread_only)

\* the if/elif chain of one pass of the for loop of get_message_uids
ResolveKey(c, folder_name, k, v, unread_only) ==
  IF k = K_senders
  THEN IF InValue(">>", v)
       THEN Resolved(LongDomains(ObjsOf(get_all_message_ids(c, folder_name), folder_name)))
       ELSE Resolved(get_messages_from(c, folder_name, v, unread_only))
  ELSE IF Contains(K_not_senders, k)
  THEN Resolved(get_messages_with_specs(c, folder_name, Str(<<"NOT", "FROM">>), v,
                                        unread_only))
  ELSE IF Contains(K_recipients, k)
  THEN Resolved(get_messages_to(c, folder_name, v, unread_only))
  ELSE IF Contains(K_since, k)
  THEN Resolved(get_messages_since_date(c, folder_name, v, unread_only))
  ELSE IF Contains(K_before, k)
  THEN Resolved(get_messages_before_date(c, folder_name, v, unread_only))
  ELSE IF Contains(K_date, k)
  THEN IF v.t # "date" THEN Resolved(Ret(Raise(c, "ValueError"), {}))
       ELSE Resolved(BetweenDates(c, folder_name, ymd_from_date_spec(v), unread_only))
  ELSE IF k = K_subject
  THEN Resolved(get_messages_with_specs(c, folder_name, Word("SUBJECT"), v,
                                        unread_only))
  ELSE IF Contains(K_not_subject, k)
  THEN Resolved(get_messages_with_specs(c, folder_name, Str(<<"NOT", "SUBJECT">>), v,
                                        unread_only))
  ELSE IF Contains(K_not_replied, k)
  THEN Resolved(get_messages_with_specs(c, folder_name, Word("UNANSWERED"), Str(<< >>),
                                        unread_only))
  ELSE Skipped(c)

\* Merge, seeding an empty running set from any pass
Merge_SeedWheneverEmpty(uids, new_uids, merge, first, nkeys) ==
  IF Cardinality(uids) > 0
  THEN IF merge = "and" THEN uids \cap new_uids ELSE uids \cup new_uids
  ELSE IF merge = "or" \/ nkeys = 1 THEN uids \cup new_uids
  ELSE IF Cardinality(new_uids) > 0 THEN uids \cup new_uids
  ELSE uids

\* Merge, treating an empty running set under "or" as under "and"
Merge_OrSeedsOnlyFirst(uids, new_uids, merge, first, nkeys) ==
  IF Cardinality(uids) > 0
  THEN IF merge = "and" THEN uids \cap new_uids ELSE uids \cup new_uids
  ELSE IF nkeys = 1 THEN uids \cup new_uids
  ELSE IF first /\ Cardinality(new_uids) > 0 THEN uids \cup new_uids
  ELSE uids

\* Merge as pure set algebra
Merge_SetAlgebra(uids, new_uids, merge, first, nkeys) ==
  IF merge = "and" THEN uids \cap new_uids ELSE uids \cup new_uids

\* the merge of new_uids into uids at the end of one pass
Merge(uids, new_uids, merge, first, nkeys) ==
  IF Cardinality(uids) > 0
  THEN IF merge = "and" THEN uids \cap new_uids ELSE uids \cup new_uids
  ELSE IF merge = "or" \/ nkeys = 1 THEN uids \cup new_uids
  ELSE IF first /\ Cardinality(new_uids) > 0 THEN uids \cup new_uids
  ELSE uids

\* The locals uids and first of get_message_uids after the pass that handed r
\* to the merge; loc holds them as they were before the pass.
Pass(loc, r, merge, nkeys) ==
  IF Failed(r) \/ r.ret.skip THEN Ret(r, loc)
  ELSE Ret(r, [uids |-> Merge(loc.uids, r.ret.uids, merge, loc.first, nkeys),
               first |-> FALSE])

\* the first for loop of get_message_uids from key i on; c.ret holds the
\* locals uids and first
RECURSIVE KeyLoop(_, _, _, _, _, _)
KeyLoop(c, folder_name, searchspec, merge, unread_only, i) ==
  IF i > Len(searchspec) \/ Failed(c) THEN c
  ELSE KeyLoop(Pass(c.ret,
                    ResolveKey(c, folder_name, searchspec[i].k, searchspec[i].v,
                               unread_only),
                    merge, Len(searchspec)),
               folder_name, searchspec, merge, unread_only, i + 1)

\* the second for loop of get_message_uids from key i on: the post-filters of
\* the uids c.ret
RECURSIVE FilterLoop(_, _, _, _)
FilterLoop(c, folder_name, searchspec, i) ==
  IF i > Len(searchspec) \/ Failed(c) THEN c
  ELSE FilterLoop(IF searchspec[i].k = K_attachments
                  THEN messages_with_attachments(c, c.ret, folder_name, FALSE)
                  ELSE IF searchspec[i].k = K_no_attachments
                  THEN messages_with_attachments(c, c.ret, folder_name, TRUE)
                  ELSE c,
                  folder_name, searchspec, i + 1)

\* unread_only = searchspec["unread"], False without the key
unread_only_of(searchspec) ==
  IF HasKey(searchspec, K_unread) THEN Lookup(searchspec, K_unread) ELSE Bool(FALSE)

\* the statements of get_message_uids before its first loop
Seed(c, folder_name, searchspec) ==
  IF HasKey(searchspec, K_unread)
  THEN IF Len(searchspec) = 1 THEN get_unread_ids(c, folder_name) ELSE Ret(c, {})
  ELSE IF Len(searchspec) = 0 THEN get_all_message_ids(c, folder_name) ELSE Ret(c, {})

\* the locals uids and first at the start of the first loop
Locals(r) == Ret(r, [uids |-> r.ret, first |-> TRUE])

\* the uids at the end of the first loop
Uids(r) == Ret(r, IF Failed(r) THEN {} ELSE r.ret.uids)

\* Returned, handing back what was found when a query failed
Returned_SwallowsFailure(r) == [r EXCEPT !.err = NoErr]

\* return uids
Returned(r) == IF Failed(r) THEN Ret(r, {}) ELSE r

\* MailAccount.get_message_uids(folder_name, searchspec, merge)
get_message_uids(c, folder_name, searchspec, merge) ==
  IF Failed(c) THEN Ret(c, {})
  ELSE Returned(FilterLoop(Uids(KeyLoop(Locals(Seed(c, folder_name, searchspec)),
                                        folder_name, searchspec, merge,
                                        unread_only_of(searchspec), 1)),
                           folder_name, searchspec, 1))

\* -------------------------------------------- folders, move and delete
\* str.upper() of the capability names asked for
Upper(name) == IF name = "move" THEN "MOVE" ELSE name

\* MailAccount.has_capability(capability)
has_capability(caps, capability) == Upper(capability) \in caps

\* MailAccount.has_move_capability
has_move_capability(caps) == has_capability(caps, "MOVE")

\* Forget, keeping the cached list
Forget_KeepsList(c) == c

\* self._folders = None
Forget(c) == IF Failed(c) THEN c ELSE [c EXCEPT !.cache = NoCache]

\* MailAccount.create_folder(folder_name)
create_folder(c, folder_name) ==
  IF Failed(c) THEN c
  ELSE Exit(c, Forget(create(Enter(c), folder_name.w)))

\* move_messages, flagging the messages before it copies them
move_messages_FlagsFirst(c, caps, uids, from_folder, to_folder) ==
  IF Failed(c) \/ Cardinality(uids) < 1 THEN c
  ELSE IF has_move_capability(caps)
  THEN Exit(c, move(select_folder(Enter(c), from_folder.w), uids, to_folder.w))
  ELSE Exit(c, expunge(copy(delete_flagged(select_folder(Enter(c), from_folder.w), uids),
                            uids, to_folder.w),
                       uids))

\* MailAccount.rename_folder(folder_name, new_name)
rename_folder(c, folder_name, new_name) ==
  IF Failed(c) THEN c
  ELSE Exit(c, Forget(rename(Enter(c), folder_name.w, new_name.w)))

\* MailAccount.remove_folder(folder_name)
remove_folder(c, folder_name) ==
  IF Failed(c) THEN c
  ELSE Exit(c, Forget(delete_folder(Enter(c), folder_name.w)))

\* MailAccount.move_messages(uids, from_folder, to_folder)
move_messages(c, caps, uids, from_folder, to_folder) ==
  IF Failed(c) \/ Cardinality(uids) < 1 THEN c
  ELSE IF has_move_capability(caps)
  THEN Exit(c, move(select_folder(Enter(c), from_folder.w), uids, to_folder.w))
  ELSE Exit(c, expunge(delete_flagged(copy(select_folder(Enter(c), from_folder.w),
                                           uids, to_folder.w),
                                      uids),
                       uids))

\* MailAccount.delete_messages(uids, from_folder)
delete_messages(c, uids, from_folder) ==
  IF Failed(c) \/ Cardinality(uids) < 1 THEN c
  ELSE Exit(c, expunge(delete_flagged(select_folder(Enter(c), from_folder.w), uids),
                       uids))

\* ---------------------------------------------------------- process_rules
K_move == Key("move")
K_delete == Key("delete")
K_merge == Key("merge")

\* mailtool.SEARCH_KEYS: the predicate names of a search specification
SEARCH_KEYS ==
  {K_senders, K_not_senders, K_recipients, K_since, K_before, K_date, K_subject,
   K_not_subject, K_unread, K_not_replied, K_attachments, K_no_attachments}

\* what process_rules prints about its actions
Line(what, folder, n, uids) == [what |-> what, folder |-> folder, n |-> n, uids |-> uids]
Say(c, line) == IF Failed(c) THEN c ELSE [c EXCEPT !.out = Append(@, line)]

\* time.sleep(1.5)
sleep(c) == IF Failed(c) THEN c ELSE Logged(c, Entry("sleep", NoFolder, << >>, {}))

\* search = {k: listify(v) for k, v in rule.items() if k in SEARCH_KEYS}
RECURSIVE SearchOf(_)
SearchOf(rule) ==
  IF rule = << >> THEN << >>
  ELSE (IF Head(rule).k \in SEARCH_KEYS
        THEN <<Item(Head(rule).k, List(listify(Head(rule).v)))>>
        ELSE << >>)
       \o SearchOf(Tail(rule))

\* merge = rule["merge"], "and" without the key
MergeOf(rule) == IF HasKey(rule, K_merge) THEN Lookup(rule, K_merge).w[1] ELSE "and"

\* Ensure, announcing the folder without creating it
Ensure_OnlySays(f, to, dryrun) ==
  IF Failed(f) \/ to.w \in Range(f.ret) THEN f
  ELSE IF ~dryrun
  THEN Say(f, Line("creating", to.w, 0, {}))
  ELSE Say(f, Line("would_create", to.w, 0, {}))

\* if rule["move"] not in self.folders: create the folder, or say so
Ensure(f, to, dryrun) ==
  IF Failed(f) \/ to.w \in Range(f.ret) THEN f
  ELSE IF ~dryrun
  THEN create_folder(Say(f, Line("creating", to.w, 0, {})), to)
  ELSE Say(f, Line("would_create", to.w, 0, {}))

\* MoveAction, sleeping before the move
MoveAction_SleepsFirst(c, caps, rule, uids, dryrun) ==
  IF Failed(c) \/ ~HasKey(rule, K_move) THEN c
  ELSE IF ~dryrun
  THEN Say(move_messages(sleep(Ensure(folders(c), Lookup(rule, K_move), dryrun)),
                         caps, uids, Word("INBOX"), Lookup(rule, K_move)),
           Line("moved", Lookup(rule, K_move).w, Cardinality(uids), {}))
  ELSE Say(Ensure(folders(c), Lookup(rule, K_move), dryrun),
           Line("would_move", Lookup(rule, K_move).w, Cardinality(uids), {}))

\* the move of the matched uids of a rule, with the creation of its folder
MoveAction(c, caps, rule, uids, dryrun) ==
  IF Failed(c) \/ ~HasKey(rule, K_move) THEN c
  ELSE IF ~dryrun
  THEN Say(sleep(move_messages(Ensure(folders(c), Lookup(rule, K_move), dryrun),
                               caps, uids, Word("INBOX"), Lookup(rule, K_move))),
           Line("moved", Lookup(rule, K_move).w, Cardinality(uids), {}))
  ELSE Say(Ensure(folders(c), Lookup(rule, K_move), dryrun),
           Line("would_move", Lookup(rule, K_move).w, Cardinality(uids), {}))

\* DeleteAction, deleting in a dry run too
DeleteAction_AlsoInDryRun(c, rule, uids, dryrun) ==
  IF Failed(c) \/ ~HasKey(rule, K_delete) THEN c
  ELSE Say(sleep(delete_messages(c, uids, Word("INBOX"))),
           Line(IF dryrun THEN "would_delete" ELSE "deleted", INBOX, Cardinality(uids), {}))

\* the deletion of the matched uids of a rule
DeleteAction(c, rule, uids, dryrun) ==
  IF Failed(c) \/ ~HasKey(rule, K_delete) THEN c
  ELSE IF ~dryrun
  THEN Say(sleep(delete_messages(c, uids, Word("INBOX"))),
           Line("deleted", INBOX, Cardinality(uids), {}))
  ELSE Say(c, Line("would_delete", INBOX, Cardinality(uids), {}))

\* for msg in msgs: print(msg.colour_str())
Shown(o) ==
  Say(o, Line("messages", INBOX, Cardinality(o.ret.msgs), {m.uid : m \in o.ret.msgs}))

\* Actions, deleting before moving
Actions_DeleteFirst(o, caps, rule, uids, dryrun) ==
  MoveAction(DeleteAction(Shown(o), rule, uids, dryrun), caps, rule, uids, dryrun)

\* the actions of a rule on the uids its search matched
Actions(o, caps, rule, uids, dryrun) ==
  DeleteAction(MoveAction(Shown(o), caps, rule, uids, dryrun), rule, uids, dryrun)

\* if len(uids) > 0: the body of the rule for the uids r returned
Matched(r, caps, rule, dryrun) ==
  IF Failed(r) \/ ~(Cardinality(r.ret) > 0) THEN r
  ELSE Actions(get_message_objs(r, r.ret, Word("INBOX"), FALSE), caps, rule, r.ret, dryrun)

\* one pass of the loop of process_rules over the rules
DoRule(c, caps, rule, dryrun) ==
  IF Len(SearchOf(rule)) > 0
  THEN Matched(get_message_uids(c, Word("INBOX"), SearchOf(rule), MergeOf(rule)),
               caps, rule, dryrun)
  ELSE c

RECURSIVE RuleLoop(_, _, _, _, _)
RuleLoop(c, caps, rules, i, dryrun) ==
  IF i > Len(rules) \/ Failed(c) THEN c
  ELSE RuleLoop(DoRule(c, caps, rules[i], dryrun), caps, rules, i + 1, dryrun)

\* MailAccount.process_rules(dryrun) over the rules of the account's rule file
process_rules(c, caps, rules, dryrun) == RuleLoop(c, caps, rules, 1, dryrun)

\* ------------------------------------------------------------------ state
VARIABLES
  server,        \* [folders: the names that exist, mbox: name -> messages]
  capabilities,  \* MailAccount.capabilities: the server's capability names
  _folders,      \* MailAccount._folders
  call,          \* the call of get_message_uids about to be made
  last,          \* the last call of MailAccount: arguments, result, server calls
  FETCH_KEYS     \* mailtool.FETCH_KEYS: the list of the package, one per process

vars == <<server, capabilities, _folders, call, last, FETCH_KEYS>>

\* the account, its server and the list of the package as a call finds them
Account == Holding(Ctx(server, _folders), FETCH_KEYS)

\* ----------------------------------------------------------------- inputs
Addresses == {"a@x.com", "spam@bad.com"}
\* a sender whose domain is longer than the threshold of the ">>" branch
BulkSender == "news@mail.bulk-sender-platform-delivery.example.com"
Subjects == {<<"invoice">>, <<"hello">>}

\* A message apart from its UID.  DefaultKind is a read, answered message
\* without attachments; the kinds over a set of fields vary in these fields.
KindsOver(fields) ==
  [from : IF "from" \in fields THEN Addresses
          ELSE IF "bulk" \in fields THEN {"a@x.com", BulkSender} ELSE {"a@x.com"},
   to : {"me@x.com"},
   subject : IF "subject" \in fields THEN Subjects ELSE {<<"hello">>},
   date : IF "date" \in fields THEN {1, 2, 3} ELSE {2},
   seen : IF "seen" \in fields THEN BOOLEAN ELSE {TRUE},
   answered : IF "answered" \in fields THEN BOOLEAN ELSE {TRUE},
   attach : IF "attach" \in fields THEN BOOLEAN ELSE {FALSE},
   deleted : IF "deleted" \in fields THEN BOOLEAN ELSE {FALSE}]

WithUid(kind, uid) ==
  [uid |-> uid, from |-> kind.from, to |-> kind.to, subject |-> kind.subject,
   date |-> kind.date, seen |-> kind.seen, answered |-> kind.answered,
   attach |-> kind.attach, deleted |-> kind.deleted]

\* the messages of the kinds S with the UIDs base+1, base+2, ...
Numbered(S, base) ==
  LET q == SeqOfSet(S) IN {WithUid(q[i], base + i) : i \in DOMAIN q}

\* the subsets of S of at most n elements
RECURSIVE UpTo(_, _)
UpTo(S, n) ==
  IF n = 0 THEN {{}}
  ELSE LET P == UpTo(S, n - 1) IN P \cup {T \cup {x} : T \in P, x \in S}

\* the folders besides INBOX and what they hold
OtherMail ==
  [f \in FolderNames |->
     CASE f = Junk -> Numbered({[from |-> "spam@bad.com", to |-> "me@x.com",
                                 subject |-> <<"hello">>, date |-> 2, seen |-> FALSE,
                                 answered |-> FALSE, attach |-> FALSE,
                                 deleted |-> FALSE]}, 10)
       [] f = Mail -> Numbered({[from |-> "a@x.com", to |-> "me@x.com",
                                 subject |-> <<"invoice">>, date |-> 2, seen |-> TRUE,
                                 answered |-> FALSE, attach |-> TRUE,
                                 deleted |-> FALSE]}, 20)
       [] f = JunkMail -> Numbered({[from |-> "a@x.com", to |-> "me@x.com",
                                     subject |-> <<"hello">>, date |-> 2, seen |-> FALSE,
                                     answered |-> TRUE, attach |-> FALSE,
                                     deleted |-> FALSE]}, 30)
       [] OTHER -> {}]

\* the servers whose folders are fs and whose INBOX holds at most MaxMsg
\* messages of the given kinds
Servers(fs, kinds) ==
  {[folders |-> fs,
    mbox |-> [f \in FolderNames |->
                IF f = INBOX THEN Numbered(S, 0)
                ELSE IF f \in fs THEN OtherMail[f] ELSE {}]] :
     S \in UpTo(kinds, MaxMsg)}

\* the dicts over a set of items: every order of every subset
RECURSIVE DictsOver(_)
DictsOver(items) ==
  {<< >>} \cup UNION {{<<it>> \o d : d \in DictsOver(items \ {it})} : it \in items}

MergeModes == {"and", "or"}

NoCall ==
  [op |-> "none", folder |-> NoFolder, searchspec |-> << >>, merge |-> "",
   keys |-> None, vals |-> None]
NoLast ==
  [op |-> "none", folder |-> NoFolder, searchspec |-> << >>, merge |-> "",
   keys |-> None, vals |-> None, ret |-> {}, err |-> NoErr, log |-> << >>]

\* The calls of get_message_uids that are checked, in families: the items
\* the specifications are made of, the fields the messages of INBOX vary in,
\* the folders that exist and the folder asked for.
ResolveInputs(items, fields, fs, names) ==
  /\ server \in Servers(fs, KindsOver(fields))
  /\ call \in [op : {"get_message_uids"}, folder : names,
               searchspec : DictsOver(items), merge : MergeModes,
               keys : {None}, vals : {None}]

\* the calls of _get_messages_with_specs for a range of dates that are
\* checked: the keys SINCE and BEFORE with one date or two
RangeInputs ==
  /\ server \in Servers({INBOX}, KindsOver({"date"}))
  /\ call \in {[NoCall EXCEPT !.op = "get_messages_with_specs", !.folder = INBOX,
                              !.keys = List(<<Word("SINCE"), Word("BEFORE")>>),
                              !.vals = v] :
                 v \in {Date(2), List(<<Date(2)>>), List(<<Date(2), Date(3)>>)}}

\* ---------------------------------------------------------------- actions
InitResolve ==
  /\ \/ ResolveInputs({Item(K_senders, Word("a@x.com")),
                       Item(K_subject, Word("invoice")),
                       Item(K_not_replied, Bool(TRUE)), Item(K_unread, Bool(TRUE))},
                      {"from", "subject", "seen", "answered"}, {INBOX}, {INBOX})
     \/ ResolveInputs({Item(K_senders, Str(<<"a@x.com", "spam@bad.com">>)),
                       Item(K_unread, Bool(TRUE)),
                       Item(K_attachments, Bool(TRUE)),
                       Item(K_no_attachments, Bool(TRUE))},
                      {"from", "seen", "attach"}, {INBOX}, {INBOX})
     \/ ResolveInputs({Item(K_subject, Word("invoice")), Item(K_unread, Bool(TRUE)),
                       Item(Key("foo"), Word("x")),
                       Item(<<"sent_", "before">>, Date(2))},
                      {"subject", "seen"}, {INBOX}, {INBOX})
     \/ \E fs \in {FolderNames, {INBOX, JunkMail}} :
          ResolveInputs({Item(K_unread, Bool(TRUE)), Item(K_not_replied, Bool(TRUE))},
                        {"seen", "answered"}, fs, {INBOX, JunkMail, Star})
     \/ \E v \in {Word("spam@bad.com"), Str(<<"a@x.com", "spam@bad.com">>),
                   List(<<Word("a@x.com"), Word("spam@bad.com")>>)} :
          ResolveInputs({Item(K_not_senders, v), Item(K_unread, Bool(TRUE))},
                        {"from", "seen"}, {INBOX}, {INBOX})
     \/ ResolveInputs({Item(K_senders, Word(">>")), Item(K_unread, Bool(TRUE))},
                      {"bulk", "seen"}, {INBOX}, {INBOX})
     \/ ResolveInputs({Item(K_senders, Word("a@x.com")), Item(K_unread, Bool(FALSE)),
                       Item(K_not_replied, Bool(FALSE)),
                       Item(K_attachments, Bool(FALSE))},
                      {"seen", "answered", "attach"}, {INBOX}, {INBOX})
     \/ ResolveInputs({Item(K_senders, List(<<Word("a@x.com")>>)),
                       Item(K_unread, List(<<Bool(FALSE)>>)),
                       Item(K_no_attachments, List(<<Bool(FALSE)>>))},
                      {"seen", "attach"}, {INBOX}, {INBOX})
     \/ RangeInputs
  /\ capabilities = {"MOVE"}
  /\ _folders = NoCache
  /\ FETCH_KEYS = FetchKeysAtImport
  /\ last = NoLast

\* the state after the call returned r
Answered(r) ==
  /\ last' = [NoLast EXCEPT !.op = call.op, !.folder = call.folder,
                            !.searchspec = call.searchspec, !.merge = call.merge,
                            !.keys = call.keys, !.vals = call.vals,
                            !.ret = r.ret, !.err = r.err, !.log = r.log]
  /\ _folders' = r.cache
  /\ FETCH_KEYS' = r.keys

\* m.get_message_uids(folder_name, searchspec, merge)
GetMessageUids ==
  /\ call.op = "get_message_uids"
  /\ Answered(get_message_uids(Account, Str(call.folder),
                               call.searchspec, call.merge))
  /\ call' = NoCall
  /\ UNCHANGED <<server, capabilities>>

\* m._get_messages_with_specs(folder_name, spec_keys, spec_vals)
GetMessagesWithSpecs ==
  /\ call.op = "get_messages_with_specs"
  /\ Answered(get_messages_with_specs(Account, Str(call.folder),
                                      call.keys, call.vals, Bool(FALSE)))
  /\ call' = NoCall
  /\ UNCHANGED <<server, capabilities>>

NextResolve == GetMessageUids \/ GetMessagesWithSpecs

SpecResolve == InitResolve /\ [][NextResolve]_vars

\* ------------------------------------------------- the account at work
\* the rules a rule file is made of
Rule_SpamToJunk == <<Item(K_senders, Word("spam@bad.com")), Item(K_move, Str(Junk))>>
Rule_InvoicesToMail == <<Item(K_subject, Word("invoice")), Item(K_move, Str(Mail))>>
Rule_DeleteInvoicesOfA ==
  <<Item(K_senders, Word("a@x.com")), Item(K_subject, Word("invoice")),
    Item(K_delete, Bool(TRUE))>>
Rule_EitherToJunkMail ==
  <<Item(K_senders, Word("a@x.com")), Item(K_subject, Word("invoice")),
    Item(K_merge, Word("or")), Item(K_move, Str(JunkMail))>>
Rule_NoSearch == <<Item(K_move, Str(Junk))>>
Rule_HelloMoveAndDelete ==
  <<Item(K_subject, Word("hello")), Item(K_move, Str(Junk)), Item(K_delete, Bool(TRUE))>>
Rules ==
  {Rule_SpamToJunk, Rule_InvoicesToMail, Rule_DeleteInvoicesOfA, Rule_EitherToJunkMail,
   Rule_NoSearch, Rule_HelloMoveAndDelete}

\* the lists of at most n rules
RECURSIVE RuleLists(_)
RuleLists(n) ==
  IF n = 0 THEN {<< >>}
  ELSE LET P == RuleLists(n - 1) IN P \cup {Append(l, r) : l \in P, r \in Rules}

\* the lists of at most n rules among R
RECURSIVE ListsOf(_, _)
ListsOf(R, n) ==
  IF n = 0 THEN {<< >>}
  ELSE LET P == ListsOf(R, n - 1) IN P \cup {Append(l, r) : l \in P, r \in R}

\* a rule for the mail of senders with a long domain
Rule_BulkToJunk == <<Item(K_senders, Word(">>")), Item(K_move, Str(Junk))>>

\* what the server advertises
Capabilities == {{"IMAP4REV1", "MOVE"}, {"IMAP4REV1"}}

NoWork ==
  [op |-> "none", rules |-> << >>, dryrun |-> FALSE, uids |-> {}, from |-> NoFolder,
   to |-> NoFolder, fail |-> 0]
NoRun ==
  [op |-> "none", rules |-> << >>, dryrun |-> FALSE, uids |-> {}, from |-> NoFolder,
   to |-> NoFolder, fail |-> 0,
   before |-> [folders |-> {}, mbox |-> [f \in FolderNames |-> {}]],
   err |-> NoErr, log |-> << >>, out |-> << >>, open |-> 0,
   names |-> << >>, cached |-> FALSE, include_attach |-> FALSE]

\* the run of a call from the state it found, as last records it
Run(c) ==
  [NoRun EXCEPT !.op = call.op, !.rules = call.rules, !.dryrun = call.dryrun,
                !.uids = call.uids, !.from = call.from, !.to = call.to,
                !.fail = call.fail, !.before = server, !.err = c.err, !.log = c.log,
                !.out = c.out, !.open = c.open]

Init ==
  /\ capabilities \in Capabilities
  /\ _folders = NoCache
  /\ FETCH_KEYS = FetchKeysAtImport
  /\ last = NoRun
  /\ \E fs \in {{INBOX}, {INBOX, Junk}} :
       \/ /\ server \in Servers(fs, KindsOver({"from", "subject"}))
          /\ call \in {[NoWork EXCEPT !.op = "process_rules", !.rules = l, !.dryrun = d] :
                         l \in RuleLists(MaxRules), d \in BOOLEAN}
       \/ /\ server \in Servers(fs, KindsOver({"bulk"}))
          /\ call \in {[NoWork EXCEPT !.op = "process_rules", !.rules = l, !.dryrun = d] :
                         l \in ListsOf({Rule_BulkToJunk, Rule_SpamToJunk}, MaxRules),
                         d \in BOOLEAN}
       \/ /\ server \in Servers(fs, KindsOver({"from", "deleted"}))
          /\ call \in {[NoWork EXCEPT !.op = "move_messages", !.uids = u,
                                       !.from = INBOX, !.to = t] :
                         u \in SUBSET (1..MaxMsg), t \in {Junk, JunkMail}}
                   \cup {[NoWork EXCEPT !.op = "delete_messages", !.uids = u,
                                         !.from = INBOX] : u \in SUBSET (1..MaxMsg)}
                   \cup {[NoWork EXCEPT !.op = "create_folder", !.to = t] :
                           t \in {Junk, JunkMail}}

\* the account and the server as the call finds them
Now == Failing(Account, call.fail)

\* the state after the call ended in c
Finish(c) ==
  server' = c.srv /\ _folders' = c.cache /\ FETCH_KEYS' = c.keys /\ last' = Run(c)

\* m.process_rules(dryrun) with the account's rule file holding call.rules
ProcessRules ==
  /\ call.op = "process_rules"
  /\ Finish(process_rules(Now, capabilities, call.rules, call.dryrun))
  /\ call' = NoWork
  /\ UNCHANGED capabilities

\* m.move_messages(uids, from_folder, to_folder)
MoveMessages ==
  /\ call.op = "move_messages"
  /\ Finish(move_messages(Now, capabilities, call.uids, Str(call.from), Str(call.to)))
  /\ call' = NoWork
  /\ UNCHANGED capabilities

\* m.delete_messages(uids, from_folder)
DeleteMessages ==
  /\ call.op = "delete_messages"
  /\ Finish(delete_messages(Now, call.uids, Str(call.from)))
  /\ call' = NoWork
  /\ UNCHANGED capabilities

\* m.create_folder(folder_name)
CreateFolder ==
  /\ call.op = "create_folder"
  /\ Finish(create_folder(Now, Str(call.to)))
  /\ call' = NoWork
  /\ UNCHANGED capabilities

Next == ProcessRules \/ MoveMessages \/ DeleteMessages \/ CreateFolder

Spec == Init /\ [][Next]_vars

\* ------------------------------------------- the account and a failing server
\* The calls of Spec on a server that refuses one call of the run: the
\* login of a session or a call inside one.
InitFaults ==
  /\ capabilities \in Capabilities
  /\ _folders = NoCache
  /\ FETCH_KEYS = FetchKeysAtImport
  /\ last = NoRun
  /\ \E fs \in {{INBOX}, {INBOX, Junk}} :
       server \in Servers(fs, KindsOver({"from"}))
  /\ \E n \in 1..MaxFail :
       call \in {[NoWork EXCEPT !.op = "process_rules", !.rules = l, !.dryrun = d,
                                !.fail = n] :
                   l \in ListsOf({Rule_SpamToJunk, Rule_HelloMoveAndDelete}, MaxRules),
                   d \in BOOLEAN}
              \cup {[NoWork EXCEPT !.op = "move_messages", !.uids = u, !.from = INBOX,
                                    !.to = Junk, !.fail = n] : u \in {{1}, {1, 2}}}
              \cup {[NoWork EXCEPT !.op = "delete_messages", !.uids = u, !.from = INBOX,
                                    !.fail = n] : u \in {{1}, {1, 2}}}
              \cup {[NoWork EXCEPT !.op = "create_folder", !.to = Junk, !.fail = n]}

SpecFaults == InitFaults /\ [][Next]_vars

\* ------------------------------------------ the account and its folders
\* One account reads its folder list and creates, renames and removes
\* folders, in any order and as often as it likes; nobody else changes the
\* server.
InitFolders ==
  /\ capabilities \in Capabilities
  /\ _folders = NoCache
  /\ FETCH_KEYS = FetchKeysAtImport
  /\ last = NoRun
  /\ call = NoWork
  /\ \E fs \in {{INBOX}, {INBOX, Junk}} : server \in Servers(fs, KindsOver({}))

\* the state after the call op on folder (and new_name) ended in c
Did(op, folder, new_name, c) ==
  /\ server' = c.srv
  /\ _folders' = c.cache
  /\ FETCH_KEYS' = c.keys
  /\ last' = [NoRun EXCEPT !.op = op, !.from = folder, !.to = new_name,
                           !.before = server, !.err = c.err, !.log = c.log,
                           !.open = c.open,
                           !.names = IF op = "folders" THEN c.ret ELSE << >>,
                           !.cached = _folders.valid]
  /\ UNCHANGED <<capabilities, call>>

\* m.folders
ReadFolders == Did("folders", NoFolder, NoFolder, folders(Account))

\* m.create_folder(folder_name)
CreateAny ==
  \E f \in FolderNames \ {INBOX} :
    Did("create_folder", f, NoFolder, create_folder(Account, Str(f)))

\* m.rename_folder(folder_name, new_name)
RenameAny ==
  \E f \in FolderNames \ {INBOX}, g \in FolderNames \ {INBOX} :
    Did("rename_folder", f, g, rename_folder(Account, Str(f), Str(g)))

\* m.remove_folder(folder_name)
RemoveAny ==
  \E f \in FolderNames \ {INBOX} :
    Did("remove_folder", f, NoFolder, remove_folder(Account, Str(f)))

NextFolders == ReadFolders \/ CreateAny \/ RenameAny \/ RemoveAny

SpecFolders == InitFolders /\ [][NextFolders]_vars

\* ------------------------------------------ the account and the fetch keys
\* One process calls the operations that fetch messages, in any order and as
\* often as it likes, as the shell does for one folder after the other.
InitKeys ==
  /\ capabilities \in Capabilities
  /\ _folders = NoCache
  /\ FETCH_KEYS = FetchKeysAtImport
  /\ last = NoRun
  /\ call = NoWork
  /\ server \in Servers({INBOX}, KindsOver({"attach"}))

\* the state after the call op for uids of INBOX ended in c
Ran(op, uids, include_attach, c) ==
  /\ server' = c.srv
  /\ _folders' = c.cache
  /\ FETCH_KEYS' = c.keys
  /\ last' = [NoRun EXCEPT !.op = op, !.uids = uids, !.from = INBOX,
                           !.include_attach = include_attach, !.before = server,
                           !.err = c.err, !.log = c.log, !.open = c.open]
  /\ UNCHANGED <<capabilities, call>>

\* the uids the calls are made for
SomeUids == {{1}, {1, 2}}

\* m.messages_with_attachments(uids, "INBOX", invert)
MessagesWithAttachments ==
  \E u \in SomeUids, invert \in BOOLEAN :
    Ran("messages_with_attachments", u, FALSE,
        messages_with_attachments(Account, u, Word("INBOX"), invert))

\* m.unique_senders(uids, "INBOX")
UniqueSenders ==
  \E u \in SomeUids : Ran("unique_senders", u, FALSE, unique_senders(Account, u, Word("INBOX")))

\* m.get_message_objs(uids, "INBOX", include_attach)
GetMessageObjs ==
  \E u \in SomeUids, include_attach \in BOOLEAN :
    /\ include_attach => Len(FETCH_KEYS) < MaxKeys
    /\ Ran("get_message_objs", u, include_attach,
           get_message_objs(Account, u, Word("INBOX"), include_attach))

\* m.download_attachments(uids, "INBOX")
DownloadAttachments ==
  \E u \in SomeUids :
    /\ Len(FETCH_KEYS) < MaxKeys
    /\ Ran("download_attachments", u, TRUE,
           download_attachments(Account, u, Word("INBOX")))

NextKeys == MessagesWithAttachments \/ UniqueSenders \/ GetMessageObjs \/ DownloadAttachments

SpecKeys == InitKeys /\ [][NextKeys]_vars

\* ------------------------------------------------------- what is checked
\* the predicate names of the specification's table, by kind
ProtocolKeys ==
  {K_senders, K_not_senders, K_recipients, K_since, K_before, K_date, K_subject,
   K_not_subject, K_not_replied}
PostFilterKeys == {K_attachments, K_no_attachments}
RecognizedKeys == ProtocolKeys \cup {K_unread} \cup PostFilterKeys

KeysOf(d) == {d[i].k : i \in DOMAIN d}
Predicates(d) == {i \in DOMAIN d : d[i].k \in ProtocolKeys}
Without(d, i) == SubSeq(d, 1, i - 1) \o SubSeq(d, i + 1, Len(d))

\* the UIDs of the messages of a folder
UidsOf(folder) == {m.uid : m \in server.mbox[folder]}
Unseen(folder) == {m.uid : m \in {x \in server.mbox[folder] : ~x.seen}}

\* what the account answers now to a call of get_message_uids
Answer(folder, d, merge) ==
  get_message_uids(Ctx(server, NoCache), Str(folder), d, merge)

\* the set predicate i of d yields when resolved on its own (under the
\* unread restriction of d, if d has one)
Own(folder, d, i) ==
  Answer(folder,
         (IF HasKey(d, K_unread) THEN <<Item(K_unread, Lookup(d, K_unread))>>
          ELSE << >>) \o <<d[i]>>,
         "or").ret

\* the searches among the server calls of the last call
Searches == SelectSeq(last.log, LAMBDA e : e.call = "search")

Resolved2(merge) ==
  /\ last.op = "get_message_uids"
  /\ last.merge = merge
  /\ KeysOf(last.searchspec) \subseteq ProtocolKeys \cup {K_unread}
  /\ Cardinality(Predicates(last.searchspec)) >= 2

\* C1: with merge "and", a specification of two or more protocol-level
\* predicates (and possibly the unread restriction) resolves to the
\* intersection of the sets the predicates yield on their own, also when the
\* first set or an intermediate intersection is empty.
C1_AndIsIntersection ==
  Resolved2("and") =>
    /\ last.err = NoErr
    /\ last.ret = {u \in UidsOf(last.folder) :
                     \A i \in Predicates(last.searchspec) :
                        u \in Own(last.folder, last.searchspec, i)}

\* three predicates; the first two sets are not empty and do not meet, the
\* third is not empty
C1_Witness ==
  /\ Resolved2("and")
  /\ Len(last.searchspec) = 3
  /\ Cardinality(Predicates(last.searchspec)) = 3
  /\ Own(last.folder, last.searchspec, 1) # {}
  /\ Own(last.folder, last.searchspec, 2) # {}
  /\ Own(last.folder, last.searchspec, 1) \cap Own(last.folder, last.searchspec, 2) = {}
  /\ Own(last.folder, last.searchspec, 3) # {}
  /\ last.ret = {}

\* C2: with merge "or", a specification of two or more protocol-level
\* predicates (and possibly the unread restriction) resolves to the union of
\* the sets the predicates yield on their own.
C2_OrIsUnion ==
  Resolved2("or") =>
    /\ last.err = NoErr
    /\ last.ret = UNION {Own(last.folder, last.searchspec, i) :
                           i \in Predicates(last.searchspec)}

\* two predicates; the first set is empty, the second is not
C2_Witness ==
  /\ Resolved2("or")
  /\ Len(last.searchspec) = 2
  /\ Own(last.folder, last.searchspec, 1) = {}
  /\ Own(last.folder, last.searchspec, 2) # {}
  /\ last.ret = Own(last.folder, last.searchspec, 2)

\* C3: with an empty specification and merge "and", get_message_uids returns
\* the identifiers of the messages of the folder asked for, whatever its name.
C3_EmptySpecIsFolder ==
  (/\ last.op = "get_message_uids"
   /\ last.searchspec = << >>
   /\ last.merge = "and"
   /\ last.folder \in server.folders) =>
    /\ last.err = NoErr
    /\ last.ret = UidsOf(last.folder)

UnreadOnly ==
  /\ last.op = "get_message_uids"
  /\ last.searchspec = <<Item(K_unread, Bool(TRUE))>>
  /\ last.folder \in server.folders

\* C4: a specification holding only unread: true resolves, under both merge
\* modes, to the unseen messages of the folder, and the UNSEEN search of
\* get_unread_ids in that folder is the only search issued.
C4_UnreadShortcut ==
  UnreadOnly =>
    /\ last.err = NoErr
    /\ last.ret = Unseen(last.folder)
    /\ Searches = <<Entry("search", last.folder, <<Clause("UNSEEN", None, FALSE)>>, {})>>

OtherMode(merge) == IF merge = "and" THEN "or" ELSE "and"

SinglePredicate ==
  /\ last.op = "get_message_uids"
  /\ Len(last.searchspec) = 1
  /\ last.searchspec[1].k \in ProtocolKeys
  /\ last.folder \in server.folders

\* the one predicate is senders with the ">>" value, which is resolved by
\* fetching the messages of the folder and filtering them by domain length
Sentinel ==
  last.searchspec[1].k = K_senders /\ InValue(">>", last.searchspec[1].v)

\* C5 as claimed: every specification of exactly one predicate that
\* get_message_uids answers resolves to the same set under "and" and "or",
\* and the set is what the server answers to the predicate's searches, with
\* nothing fetched to filter it.
C5_EverySinglePredicate ==
  (SinglePredicate /\ last.err = NoErr) =>
    /\ last.ret = Answer(last.folder, last.searchspec, OtherMode(last.merge)).ret
    /\ last.ret = UNION {SearchFolder(server, e.folder, e.crit) : e \in Range(Searches)}
    /\ \A i \in DOMAIN last.log : last.log[i].call # "fetch"

\* C5: a specification of exactly one predicate other than senders with the
\* ">>" value resolves to the same set under "and" and "or"; the set is what
\* the server answers to the predicate's searches, nothing is fetched to
\* filter it, and for not_replied it is the answer to the one search
\* UNANSWERED in the folder.
C5_SinglePredicate ==
  (SinglePredicate /\ ~Sentinel) =>
    /\ last.err = NoErr
    /\ last.ret = Answer(last.folder, last.searchspec, OtherMode(last.merge)).ret
    /\ last.ret = UNION {SearchFolder(server, e.folder, e.crit) : e \in Range(Searches)}
    /\ \A i \in DOMAIN last.log : last.log[i].call # "fetch"
    /\ last.searchspec[1].k = K_not_replied =>
         /\ Searches = <<Entry("search", last.folder,
                                <<Clause("UNANSWERED", None, FALSE)>>, {})>>
         /\ last.ret = {m.uid : m \in {x \in server.mbox[last.folder] : ~x.answered}}

\* only not_replied, merge "and", and some but not all messages are unanswered
C5_Witness ==
  /\ SinglePredicate
  /\ last.searchspec[1].k = K_not_replied
  /\ last.merge = "and"
  /\ last.ret # {}
  /\ last.ret # UidsOf(last.folder)

\* C9: a specification whose only keys are attachments and no_attachments
\* resolves to the messages of the folder that pass these post-filters.
C9_PostFiltersOverAll ==
  (/\ last.op = "get_message_uids"
   /\ last.searchspec # << >>
   /\ KeysOf(last.searchspec) \subseteq PostFilterKeys) =>
    /\ last.err = NoErr
    /\ last.ret = {m.uid : m \in {x \in server.mbox[last.folder] :
                      /\ K_attachments \in KeysOf(last.searchspec) => x.attach
                      /\ K_no_attachments \in KeysOf(last.searchspec) => ~x.attach}}

\* C10: a key that is no recognized predicate name changes nothing: the
\* call succeeds, returns what it returns without the key and issues the
\* same searches.
C10_UnknownKeysIgnored ==
  last.op = "get_message_uids" =>
    \A i \in DOMAIN last.searchspec :
      last.searchspec[i].k \notin RecognizedKeys =>
        LET a == Answer(last.folder, Without(last.searchspec, i), last.merge)
        IN /\ last.err = NoErr
           /\ last.ret = a.ret
           /\ Searches = SelectSeq(a.log, LAMBDA e : e.call = "search")

\* ------------------------------------------- what is checked of the rules
\* the server calls that change the mailbox
MutatingCalls == {"create_folder", "move", "copy", "delete_messages", "expunge"}
Mutating(log) == SelectSeq(log, LAMBDA e : e.call \in MutatingCalls)
From(q, n) == SubSeq(q, n + 1, Len(q))

\* the last run of process_rules before and after its rule i
BeforeRule(i) ==
  process_rules(Ctx(last.before, NoCache), capabilities, SubSeq(last.rules, 1, i - 1),
                last.dryrun)
AfterRule(i) == DoRule(BeforeRule(i), capabilities, last.rules[i], last.dryrun)
\* the mailbox calls and the printed lines of rule i
CallsOf(i) == Mutating(From(AfterRule(i).log, Len(BeforeRule(i).log)))
LinesOf(i) == Range(From(AfterRule(i).out, Len(BeforeRule(i).out)))
\* the uids of INBOX the search of rule i matches, and the account's folders,
\* when the rule is reached
MatchedBy(i) ==
  get_message_uids(BeforeRule(i), Word("INBOX"), SearchOf(last.rules[i]),
                   MergeOf(last.rules[i])).ret
ListedAt(i) == Range(folders(BeforeRule(i)).ret)
HasMatch(i) ==
  /\ ~Failed(BeforeRule(i))
  /\ Len(SearchOf(last.rules[i])) > 0
  /\ MatchedBy(i) # {}
Dest(i) == Lookup(last.rules[i], K_move).w
InboxOf(c) == c.srv.mbox[INBOX]

\* C6: in a run of process_rules that is no dry run, a rule with a move
\* action that matches at least one message of INBOX and whose destination
\* is not in the account's folder list has the folder created before the
\* move is issued, moves exactly the matched uids to it and leaves every
\* other message of INBOX in INBOX.
C6_CreatedThenMoved ==
  (last.op = "process_rules" /\ ~last.dryrun) =>
    \A i \in DOMAIN last.rules :
      (HasMatch(i) /\ HasKey(last.rules[i], K_move) /\ Dest(i) \notin ListedAt(i)) =>
        /\ ~Failed(AfterRule(i))
        /\ Len(CallsOf(i)) >= 2
        /\ CallsOf(i)[1] = Entry("create_folder", Dest(i), << >>, {})
        /\ CallsOf(i)[2] \in {Entry("move", Dest(i), << >>, MatchedBy(i)),
                              Entry("copy", Dest(i), << >>, MatchedBy(i))}
        /\ \A j \in 3..Len(CallsOf(i)) : CallsOf(i)[j].call \notin {"move", "copy"}
        /\ Dest(i) \in AfterRule(i).srv.folders
        /\ AfterRule(i).srv.mbox[Dest(i)] =
             BeforeRule(i).srv.mbox[Dest(i)]
               \cup {m \in InboxOf(BeforeRule(i)) : m.uid \in MatchedBy(i)}
        /\ InboxOf(AfterRule(i)) =
             {m \in InboxOf(BeforeRule(i)) : m.uid \notin MatchedBy(i)}

\* C6 happens: the rule that moves the mail of spam@bad.com to Junk has run on
\* a server without Junk, mail of INBOX is in Junk now and other mail is
\* still in INBOX
C6_Witness ==
  /\ last.op = "process_rules" /\ ~last.dryrun /\ last.err = NoErr
  /\ last.rules = <<Rule_SpamToJunk>>
  /\ Junk \notin last.before.folders /\ Junk \in server.folders
  /\ \E m \in server.mbox[Junk] : m \in last.before.mbox[INBOX]
  /\ server.mbox[INBOX] # {}

\* C7: a dry run of process_rules issues no call that changes the mailbox
\* and leaves the server's folders and messages as they were, and every
\* rule with a match prints the action it would take with the number of
\* its matches.
C7_DryRunChangesNothing ==
  (last.op = "process_rules" /\ last.dryrun) =>
    /\ Mutating(last.log) = << >>
    /\ server = last.before
    /\ \A i \in DOMAIN last.rules :
         HasMatch(i) =>
           /\ HasKey(last.rules[i], K_move) =>
                Line("would_move", Dest(i), Cardinality(MatchedBy(i)), {}) \in LinesOf(i)
           /\ HasKey(last.rules[i], K_delete) =>
                Line("would_delete", INBOX, Cardinality(MatchedBy(i)), {}) \in LinesOf(i)

\* C7 happens: a dry run has said that it would create a folder, move mail
\* and delete mail
C7_Witness ==
  /\ last.op = "process_rules" /\ last.dryrun
  /\ \E l \in Range(last.out) : l.what = "would_create" /\ l.folder \notin server.folders
  /\ \E l \in Range(last.out) : l.what = "would_move" /\ l.n >= 1
  /\ \E l \in Range(last.out) : l.what = "would_delete" /\ l.n >= 1

\* what a server with the MOVE capability makes of the last call
NativeMove ==
  move_messages(Ctx(last.before, NoCache), {"MOVE"}, last.uids, Str(last.from),
                Str(last.to))
\* the messages the last call names, as they were in the folder it names
Given == {m \in last.before.mbox[last.from] : m.uid \in last.uids}

\* C8: without the MOVE capability move_messages of a non-empty set of uids
\* issues copy, then deleteMessages, then expunge, each for these uids, and
\* ends in the state and with the outcome of the native move: the given
\* messages are gone from the source folder and are in the destination
\* folder, and nothing else has changed.  (A copy the server refuses ends
\* the call, as the refused native move does.)
C8_FallbackEqualsMove ==
  (last.op = "move_messages" /\ "MOVE" \notin capabilities /\ last.uids # {}) =>
    /\ server = NativeMove.srv
    /\ last.err = NativeMove.err
    /\ last.err = NoErr =>
         /\ Mutating(last.log) =
              <<Entry("copy", last.to, << >>, last.uids),
                Entry("delete_messages", last.from, << >>, last.uids),
                Entry("expunge", last.from, << >>, last.uids)>>
         /\ server.folders = last.before.folders
         /\ server.mbox[last.from] = last.before.mbox[last.from] \ Given
         /\ server.mbox[last.to] = last.before.mbox[last.to] \cup Given
         /\ \A f \in FolderNames \ {last.from, last.to} :
              server.mbox[f] = last.before.mbox[f]
    /\ last.err # NoErr => Mutating(last.log) = <<Entry("copy", last.to, << >>, last.uids)>>

\* C8 happens: an account without MOVE has moved some of the mail of INBOX
\* and left other mail there
C8_Witness ==
  /\ last.op = "move_messages" /\ "MOVE" \notin capabilities /\ last.err = NoErr
  /\ \E m \in server.mbox[last.to] : m.uid \in last.uids /\ m \in last.before.mbox[INBOX]
  /\ server.mbox[INBOX] # {}

\* ------------------------------------- what is checked of the predicates
\* the clauses of the searches of the last call
ClausesSent == UNION {Range(e.crit) : e \in Range(Searches)}
\* the message of INBOX with the uid u
InboxMessage(u) == CHOOSE m \in server.mbox[INBOX] : m.uid = u

\* C11: the addresses of a not_senders value are each sent as a NOT-wrapped
\* FROM clause and never as a positive FROM clause, and no message the
\* predicate returns is from one of them.
C11_NotSendersExcludesAll ==
  (last.op = "get_message_uids" /\ last.err = NoErr
     /\ HasKey(last.searchspec, K_not_senders)) =>
    LET addresses == Range(listify(Lookup(last.searchspec, K_not_senders)))
    IN /\ \A cl \in ClausesSent : cl.kw = "FROM" => cl.neg
       /\ \A a \in addresses : Clause("FROM", a, TRUE) \in ClausesSent
       /\ \A u \in last.ret : Word(InboxMessage(u).from) \notin addresses

\* C12: a translation that needs two values (the dates of SINCE and BEFORE)
\* and is given one fails with InvalidSpecification before any call to the
\* server: no session is opened, no folder selected, no search sent.
C12_OneDateIsInvalid ==
  (last.op = "get_messages_with_specs"
     /\ Len(listify(last.keys)) = 2 /\ Len(listify(last.vals)) = 1) =>
    /\ last.err = "InvalidSpecification"
    /\ last.log = << >>

\* the uids of INBOX the search of rule i matches in the mailbox as it was
\* when the run began
MatchedAtStart(i) ==
  get_message_uids(Ctx(last.before, NoCache), Word("INBOX"), SearchOf(last.rules[i]),
                   MergeOf(last.rules[i])).ret

\* C13: the rules of one run are evaluated independently: the set a rule
\* matches is the same whether or not the rules before it have moved or
\* deleted messages.
C13_RulesIndependent ==
  last.op = "process_rules" =>
    \A i \in DOMAIN last.rules :
      (~Failed(BeforeRule(i)) /\ Len(SearchOf(last.rules[i])) > 0) =>
        MatchedBy(i) = MatchedAtStart(i)

\* ----------------------------------------- what is checked of the failures
\* C14: every connection an operation opens is terminated when the
\* operation ends: after a normal return, after a failed call inside the
\* session and after a failed login.
C14_SessionsTerminated == last.op # "none" => last.open = 0

\* the server has refused a call of the last run
RefusedCall ==
  /\ last.fail \in 1..Len(last.log)
  /\ last.log[last.fail].call \notin {"logout", "sleep"}

\* C16: a server call that fails during process_rules propagates to the
\* caller, and after it the run issues no query and no mutation for this
\* rule or a later one (it only closes the session the call failed in).
C16_FailureAborts ==
  (last.op = "process_rules" /\ RefusedCall) =>
    /\ last.err # NoErr
    /\ \A j \in (last.fail + 1)..Len(last.log) : last.log[j].call = "logout"

\* C16 happens: the search of the first of two rules was refused on a
\* mailbox with mail
C16_Witness ==
  /\ last.op = "process_rules" /\ ~last.dryrun /\ RefusedCall
  /\ last.log[last.fail].call = "search"
  /\ Len(last.rules) = 2
  /\ last.before.mbox[INBOX] # {}
  /\ server = last.before

\* ------------------------------------------ what is checked of the folders
FolderChanges == {"create_folder", "rename_folder", "remove_folder"}
Listed(log) == \E j \in DOMAIN log : log[j].call = "list"

\* C15: with folders read and folders created, renamed and removed in any
\* order on one account, the list folders returns names the folders of the
\* server; every successful change of a folder empties the cache, and the
\* server is asked for the list only by a read that finds the cache empty.
C15_FolderCacheIsFresh ==
  /\ _folders.valid =>
       /\ Range(_folders.names) = server.folders
       /\ Len(_folders.names) = Cardinality(server.folders)
  /\ last.op = "folders" =>
       /\ last.err = NoErr
       /\ Range(last.names) = server.folders
       /\ Len(last.names) = Cardinality(server.folders)
       /\ Listed(last.log) <=> ~last.cached
  /\ (last.op \in FolderChanges /\ last.err = NoErr) => ~_folders.valid
  /\ last.op \in FolderChanges => ~Listed(last.log)

\* C15 happens: a read after a change of the folders has asked the server
\* again and returns the folder Mail, which the server did not have at first
C15_Witness ==
  /\ last.op = "folders" /\ ~last.cached /\ Listed(last.log)
  /\ Mail \in Range(last.names)
  /\ Junk \notin server.folders

\* ------------------------------------- what is checked of unread: true
\* C17: a specification holding unread: true and other predicates resolves,
\* under both merge modes and for every predicate kind, the ">>" value of
\* senders included, to unseen messages only.
C17_UnreadRestrictsAll ==
  (/\ last.op = "get_message_uids"
   /\ HasKey(last.searchspec, K_unread)
   /\ Truthy(Lookup(last.searchspec, K_unread))
   /\ Predicates(last.searchspec) # {}
   /\ last.folder \in server.folders) =>
    last.ret \subseteq Unseen(last.folder)

\* ------------------------------------- what is checked of rules in a run
\* C18: a rule of a run of process_rules whose specification yields no
\* message issues no call that changes the mailbox (the destination of its
\* move is not created either), raises no error and leaves the run to go on
\* with the next rule.
C18_NoMatchNoAction ==
  last.op = "process_rules" =>
    \A i \in DOMAIN last.rules :
      (~Failed(BeforeRule(i)) /\ MatchedBy(i) = {}) =>
        /\ CallsOf(i) = << >>
        /\ AfterRule(i).srv = BeforeRule(i).srv
        /\ ~Failed(AfterRule(i))

\* the mailbox calls of rule i apart from the creation of its folder
ActionCalls(i) == SelectSeq(CallsOf(i), LAMBDA e : e.call # "create_folder")
\* the calls of move_messages and of delete_messages for the uids M
MoveCalls(to, M) ==
  IF "MOVE" \in capabilities THEN <<Entry("move", to, << >>, M)>>
  ELSE <<Entry("copy", to, << >>, M), Entry("delete_messages", INBOX, << >>, M),
         Entry("expunge", INBOX, << >>, M)>>
DeleteCalls(M) ==
  <<Entry("delete_messages", INBOX, << >>, M), Entry("expunge", INBOX, << >>, M)>>

\* C19: in a run that is no dry run, a rule with move and delete and at
\* least one match issues the move and then the delete, both for the uids
\* the rule matched at first; afterwards the matched messages are in the
\* destination folder and not in INBOX.
C19_MoveThenDelete ==
  (last.op = "process_rules" /\ ~last.dryrun) =>
    \A i \in DOMAIN last.rules :
      (HasMatch(i) /\ HasKey(last.rules[i], K_move) /\ HasKey(last.rules[i], K_delete)) =>
        /\ ~Failed(AfterRule(i))
        /\ ActionCalls(i) = MoveCalls(Dest(i), MatchedBy(i)) \o DeleteCalls(MatchedBy(i))
        /\ \A m \in InboxOf(BeforeRule(i)) :
             m.uid \in MatchedBy(i) =>
               m \in AfterRule(i).srv.mbox[Dest(i)] /\ m \notin InboxOf(AfterRule(i))

\* C19 happens: the rule that moves the mail with the subject hello to Junk
\* and deletes it has run on an INBOX holding such mail and other mail
C19_Witness ==
  /\ last.op = "process_rules" /\ ~last.dryrun /\ last.err = NoErr
  /\ last.rules = <<Rule_HelloMoveAndDelete>>
  /\ \E m \in server.mbox[Junk] : m \in last.before.mbox[INBOX] /\ m.subject = <<"hello">>
  /\ server.mbox[INBOX] # {}
  /\ \E j \in DOMAIN last.log : last.log[j].call = "delete_messages"

\* ------------------------------------- what is checked of the pacing
\* the calls that end a move or a deletion
Closing == {"move", "expunge"}
Sleeps(log) == {j \in DOMAIN log : log[j].call = "sleep"}
\* the calls between positions j and k of the log are logouts
OnlyLogouts(log, j, k) == \A n \in (j + 1)..(k - 1) : log[n].call = "logout"
\* the number of moves and deletions rule i performs
ActionsOf(i) ==
  IF ~HasMatch(i) THEN 0
  ELSE (IF HasKey(last.rules[i], K_move) THEN 1 ELSE 0)
       + (IF HasKey(last.rules[i], K_delete) THEN 1 ELSE 0)
RECURSIVE ActionsUpTo(_)
ActionsUpTo(i) == IF i = 0 THEN 0 ELSE ActionsUpTo(i - 1) + ActionsOf(i)

\* C20: in a run that is no dry run every move and every deletion is
\* followed by one sleep before any other call to the server (after a move
\* or an expunge only the logout of its session, the expunge that ends the
\* same move, or the sleep can follow; each sleep follows a move or an
\* expunge directly; a run that ends well has slept once for each move and
\* each deletion); a dry run never sleeps.
C20_PacedAfterEachAction ==
  last.op = "process_rules" =>
    /\ last.dryrun => Sleeps(last.log) = {}
    /\ ~last.dryrun =>
         /\ \A j \in DOMAIN last.log :
              last.log[j].call \in Closing =>
                \E k \in (j + 1)..Len(last.log) :
                  /\ last.log[k].call \in {"sleep", "expunge"}
                  /\ OnlyLogouts(last.log, j, k)
         /\ \A k \in Sleeps(last.log) :
              \E j \in 1..(k - 1) :
                last.log[j].call \in Closing /\ OnlyLogouts(last.log, j, k)
         /\ last.err = NoErr =>
              Cardinality(Sleeps(last.log)) = ActionsUpTo(Len(last.rules))

\* C20 happens: a run has moved and deleted mail and has slept after each
C20_Witness ==
  /\ last.op = "process_rules" /\ ~last.dryrun /\ last.err = NoErr
  /\ Cardinality(Sleeps(last.log)) >= 2
  /\ \E j \in DOMAIN last.log : last.log[j].call \in {"move", "copy"}
  /\ \E j \in DOMAIN last.log : last.log[j].call = "delete_messages"
  /\ \E j \in Sleeps(last.log) : j < Len(last.log) /\ last.log[j + 1].call = "login"

\* ------------------------------------- what is checked of false values
\* the keys whose value is a boolean
BooleanKeys == {K_unread, K_not_replied, K_attachments, K_no_attachments}
\* False, as the caller of get_message_uids writes it and as process_rules
\* hands it on: listify(False)
IsFalse(v) == v = Bool(FALSE) \/ v = List(listify(Bool(FALSE)))

\* C21: a specification holding a predicate and a boolean key with the
\* value false resolves as the same specification without the key does, for
\* the value as written and for the value as process_rules wraps it.
C21_FalseRestrictsNothing ==
  (last.op = "get_message_uids" /\ last.folder \in server.folders) =>
    \A i \in DOMAIN last.searchspec :
      (/\ last.searchspec[i].k \in BooleanKeys
       /\ IsFalse(last.searchspec[i].v)
       /\ Predicates(Without(last.searchspec, i)) # {}) =>
        /\ last.err = Answer(last.folder, Without(last.searchspec, i), last.merge).err
        /\ last.ret = Answer(last.folder, Without(last.searchspec, i), last.merge).ret

\* ------------------------------------- what is checked of the sessions
\* the number of sessions open after the first j calls of the log
OpenAfter(log, j) ==
  Cardinality({n \in 1..j : log[n].call = "login"})
    - Cardinality({n \in 1..j : log[n].call = "logout"})

\* C22: no operation of the account logs in to a second session while a
\* session it opened is still open.
C22_OneSessionAtATime ==
  last.op # "none" => \A j \in DOMAIN last.log : OpenAfter(last.log, j) <= 1

\* ------------------------------------- what is checked of the fetch keys
\* the lists of keys the fetches of a log were sent with
KeysSent(log) == {log[j].keys : j \in {n \in DOMAIN log : log[n].call = "fetch"}}
\* the last call fetches no message body
MetadataOnly ==
  \/ last.op \in {"messages_with_attachments", "unique_senders"}
  \/ last.op = "get_message_objs" /\ ~last.include_attach

\* C23: an operation that fetches no message body sends the keys UID,
\* ENVELOPE, BODYSTRUCTURE and FLAGS and no other, whatever the process
\* called before, and finds and leaves the list FETCH_KEYS as the import of
\* the package made it.
C23_FetchKeysStay ==
  MetadataOnly =>
    /\ KeysSent(last.log) \subseteq {FetchKeysAtImport}
    /\ FETCH_KEYS = FetchKeysAtImport

====
